---- MODULE Spec2Model ----
(***************************************************************************)
(* Potato Analytics (src/main.go): the /track beacon handler, the three    *)
(* HyperLogLog aggregation tables (pages, countries, sources) and the      *)
(* /stats/* read handlers.                                                 *)
(*                                                                         *)
(* Every db.Exec / db.Query is one atomic step of the store; a /track      *)
(* request is a process that runs its statements one at a time, so that    *)
(* several requests interleave between their statements.                   *)
(***************************************************************************)
EXTENDS Integers, Sequences, FiniteSets, Bags, TLC

(* ---------------------------------------------------------------- bounds *)

\* concurrent request slots of the HTTP server
NumProcs == 2
\* /track requests served in one behaviour of Spec and of SpecStats
MaxRequests == 2
MaxStatsRequests == 3
\* clock ticks per UTC day (24 * time.Hour scaled down) and the last tick
DayLen == 2
MaxNow == 2

Procs == 1..NumProcs

(* ---------------------------------------------------------------- inputs *)

\* form value "url" of a /track request
URLs == {"", "%zz", "https://a.com", "https://a.com/x", "https://b.com/x"}
\* header User-Agent
UserAgents == {"Mozilla/5.0 Firefox/130.0", "Googlebot/2.1"}
\* r.RemoteAddr is "IP:port"; the bytes stand for "1:5" and "1:6"
RemoteAddrs == {<<49, 58, 53>>, <<49, 58, 54>>}
\* header CF-Connecting-IP: absent, or the bytes of "1"
ForwardedIPs == {<<>>, <<49>>}
\* header CF-IPCountry
CountryHints == {"", "FR"}
\* header Referer
Referers == {"", "https://a.com/x", "https://t.co/", "%zz"}
\* query parameters of a /stats request
QueryDomains == {"", "a.com", "b.com"}
QueryKeys == {"", "secret", "guess"}

(* ------------------------------------------------------- library: net/url *)

\* url.Parse on the strings above: the error, the Host and the Path
url_Parse(s) ==
    CASE s = "%zz"             -> [err |-> TRUE,  Host |-> "",      Path |-> ""]
      [] s = "https://a.com"   -> [err |-> FALSE, Host |-> "a.com", Path |-> ""]
      [] s = "https://a.com/x" -> [err |-> FALSE, Host |-> "a.com", Path |-> "/x"]
      [] s = "https://b.com/x" -> [err |-> FALSE, Host |-> "b.com", Path |-> "/x"]
      [] s = "https://t.co/"   -> [err |-> FALSE, Host |-> "t.co",  Path |-> "/"]
      [] OTHER                 -> [err |-> FALSE, Host |-> "",      Path |-> s]

\* parser.Parse(ua): the device family and the user-agent family
parser_Parse(ua) ==
    CASE ua = "Googlebot/2.1" -> [Device |-> "Spider", UserAgent |-> "Googlebot"]
      [] OTHER                -> [Device |-> "Other",  UserAgent |-> "Firefox"]

\* the bot test of the /track handler
IsBot(ua) ==
    LET client == parser_Parse(ua)
    IN  client.Device = "Spider" \/ client.UserAgent = "Bot"

(* ------------------------------------------------------ library: the hll *)

HexDigit(n) == SubSeq(<<"0","1","2","3","4","5","6","7","8","9","a","b","c","d","e","f">>, n + 1, n + 1)

\* fmt.Sprintf("%x", visitor): two lower-case hex digits per byte
RECURSIVE Sprintf_x(_)
Sprintf_x(bytes) ==
    IF bytes = <<>> THEN <<>>
    ELSE HexDigit(Head(bytes) \div 16) \o HexDigit(Head(bytes) % 16) \o Sprintf_x(Tail(bytes))

DigitCode(c) ==
    CHOOSE n \in 0..15 : HexDigit(n) = <<c>>

HashWidth == 16

\* hll_hash_text: a deterministic hash of the text to a HashWidth-bit integer
RECURSIVE hll_hash_from(_, _)
hll_hash_from(h, text) ==
    IF text = <<>> THEN h
    ELSE hll_hash_from((h * 31 + DigitCode(Head(text)) + 1) % (2 ^ HashWidth), Tail(text))

hll_hash_text(text) == hll_hash_from(7, text)

\* An hll below its explicit threshold is the sorted list of the distinct hashes
hll_empty == <<>>

HllElems(h) == {h[i] : i \in 1..Len(h)}

RECURSIVE SortedSeq(_)
SortedSeq(S) ==
    IF S = {} THEN <<>>
    ELSE LET m == CHOOSE x \in S : \A y \in S : x <= y
         IN  <<m>> \o SortedSeq(S \ {m})

\* hll_add that appends the hash instead of keeping the list sorted
hll_add_Append(h, x) ==
    IF x \in HllElems(h) THEN h ELSE h \o <<x>>

hll_add(h, x) ==
    IF x \in HllElems(h) THEN h
    ELSE LET lower == SelectSeq(h, LAMBDA y : y < x)
             upper == SelectSeq(h, LAMBDA y : y > x)
         IN  lower \o <<x>> \o upper

hll_cardinality(h) == Len(h)

\* hll_union_agg over the visitor_hll of a group of rows
hll_union_agg(hs) == SortedSeq(UNION {HllElems(h) : h \in hs})

(* ----------------------------------------------------------------- state *)

VARIABLES
    now,          \* the server clock, in ticks
    apiKey,       \* API_KEY, read once by init()
    environment,  \* ENVIRONMENT, read once by init()
    pages,        \* table pages:     rows [domain, val (path), day, hll]
    countries,    \* table countries: rows [domain, val (country), day, hll]
    sources,      \* table sources:   rows [domain, val (referrer), day, hll]
    proc,         \* the locals of the /track request each server slot is running
    nreq,         \* /track requests received so far
    merged,       \* history: the bag of the INSERT .. ON CONFLICT statements that succeeded
    resp          \* the HTTP response written by the last step, if it wrote one

vars == <<now, apiKey, environment, pages, countries, sources, proc, nreq, merged, resp>>
tables == <<pages, countries, sources>>

\* 30 in endTime.Add(-30 * 24 * time.Hour)
WindowDays == 30

\* Truncate that keeps the time of day
Truncate_None(t) == t

\* time.Now().UTC().Truncate(24 * time.Hour)
Truncate(t) == t - (t % DayLen)

\* a free slot; tried and failed are the statements the request ran and those that
\* returned an error, country is the CF-IPCountry header once the handler has read it
IdleProc ==
    [pc |-> "idle", url |-> "", ua |-> "", visitor |-> <<>>, day |-> 0,
     country |-> "", tried |-> {}, failed |-> {}]

\* no response: the step ended in the middle of a handler, or the clock ticked;
\* referer is the Referer header of a request that reached trackSourceView, failed
\* names the statements that returned an error
NoResp ==
    [kind |-> "", code |-> 0, body |-> "", url |-> "", ua |-> "", referer |-> "",
     tried |-> {}, failed |-> {}, key |-> "", domain |-> "", rows |-> <<>>]

TrackResp(code, body, url, ua, tried, failed) ==
    [NoResp EXCEPT !.kind = "track", !.code = code, !.body = body, !.url = url,
                   !.ua = ua, !.tried = tried, !.failed = failed]

StatsResp(kind, code, key, domain, rows) ==
    [NoResp EXCEPT !.kind = kind, !.code = code, !.key = key, !.domain = domain,
                   !.rows = rows]

Init ==
    /\ now = 0
    /\ apiKey = "secret"
    /\ environment = "production"
    /\ pages = {}
    /\ countries = {}
    /\ sources = {}
    /\ proc = [p \in Procs |-> IdleProc]
    /\ nreq = 0
    /\ merged = EmptyBag
    /\ resp = NoResp

(* ----------------------------------------------------------- merge-upsert *)

SameKey(r, domain, val, day) ==
    r.domain = domain /\ r.val = val /\ r.day = day

\* Upsert whose DO UPDATE stores the new estimator instead of merging into the old
Upsert_Overwrite(table, domain, val, day, hash) ==
    {r \in table : ~SameKey(r, domain, val, day)}
        \cup {[domain |-> domain, val |-> val, day |-> day,
               hll |-> hll_add(hll_empty, hll_hash_text(hash))]}

\* Upsert without ON CONFLICT and without the UNIQUE constraint: a plain INSERT
Upsert_InsertOnly(table, domain, val, day, hash) ==
    table \cup {[domain |-> domain, val |-> val, day |-> day,
                 hll |-> hll_add(hll_empty, hll_hash_text(hash))]}

\* INSERT INTO t (..) VALUES ($1, $2, $3, hll_add(hll_empty(), hll_hash_text($4)))
\* ON CONFLICT (domain, day, val) DO UPDATE SET visitor_hll = hll_add(t.visitor_hll, hll_hash_text($4))
Upsert(table, domain, val, day, hash) ==
    IF \E r \in table : SameKey(r, domain, val, day)
    THEN {IF SameKey(r, domain, val, day)
          THEN [r EXCEPT !.hll = hll_add(r.hll, hll_hash_text(hash))]
          ELSE r : r \in table}
    ELSE table \cup {[domain |-> domain, val |-> val, day |-> day,
                      hll |-> hll_add(hll_empty, hll_hash_text(hash))]}

trackPageView(table, domain, path, day, visitor) ==
    Upsert(table, domain, path, day, Sprintf_x(visitor))

trackCountryView(table, domain, country, day, visitor) ==
    Upsert(table, domain, country, day, Sprintf_x(visitor))

trackSourceView(table, domain, referrer, day, visitor) ==
    Upsert(table, domain, referrer, day, Sprintf_x(visitor))

\* the fingerprint a visitor contributes to an estimator
Fingerprint(visitor) == hll_hash_text(Sprintf_x(visitor))

\* what a successful statement adds to the history
Merged(t, domain, val, day, visitor) ==
    [table |-> t, domain |-> domain, val |-> val, day |-> day, fp |-> Fingerprint(visitor)]

(* ---------------------------------------------------------------- /track *)

\* Validate without the bot filter: a crawler's view is tracked like any other
Validate_NoBotFilter(visitedURL, ua) ==
    IF visitedURL = "" THEN "MissingURL"
    ELSE IF url_Parse(visitedURL).err THEN "MalformedURL"
    ELSE "Track"

\* Validate with the bot filter moved in front of the check of the url
Validate_BotFirst(visitedURL, ua) ==
    IF IsBot(ua) THEN "Bot"
    ELSE IF visitedURL = "" THEN "MissingURL"
    ELSE IF url_Parse(visitedURL).err THEN "MalformedURL"
    ELSE "Track"

\* main.go 124-152: the checks of the request, in the handler's order
Validate(visitedURL, ua) ==
    IF visitedURL = "" THEN "MissingURL"
    ELSE IF IsBot(ua) THEN "Bot"
    ELSE IF url_Parse(visitedURL).err THEN "MalformedURL"
    ELSE "Track"

\* main.go 124-157: the request up to the first statement
TrackReceiveFrom(p, urls, agents, remotes, forwarded, max) ==
    /\ proc[p].pc = "idle"
    /\ nreq < max
    /\ nreq' = nreq + 1
    /\ \E visitedURL \in urls, ua \in agents, remote \in remotes, fwd \in forwarded :
         LET visitorIP == IF fwd = <<>> THEN remote ELSE fwd
             verdict == Validate(visitedURL, ua)
         IN  CASE verdict = "MissingURL" ->
                    /\ resp' = TrackResp(400, "Missing 'url' parameter", visitedURL, ua, {}, {})
                    /\ proc' = proc
               [] verdict = "Bot" ->
                    /\ resp' = TrackResp(200, "", visitedURL, ua, {}, {})
                    /\ proc' = proc
               [] verdict = "MalformedURL" ->
                    /\ resp' = TrackResp(400, "Invalid URL", visitedURL, ua, {}, {})
                    /\ proc' = proc
               [] OTHER ->
                    /\ resp' = NoResp
                    /\ proc' = [proc EXCEPT ![p] =
                           [IdleProc EXCEPT !.pc = "pages", !.url = visitedURL, !.ua = ua,
                                            !.visitor = visitorIP, !.day = Truncate(now)]]
    /\ UNCHANGED <<now, apiKey, environment, pages, countries, sources, merged>>

TrackReceive(p) ==
    TrackReceiveFrom(p, URLs, UserAgents, RemoteAddrs, ForwardedIPs, MaxRequests)

Host(p) == url_Parse(proc[p].url).Host

\* Path without the default "/" of an empty path
Path_NoDefault(p) == url_Parse(proc[p].url).Path

Path(p) ==
    LET path == url_Parse(proc[p].url).Path
    IN  IF path = "" THEN "/" ELSE path

\* TrackPagesWith that logs the error of trackPageView and carries on
TrackPagesWith_Swallow(p, results) ==
    /\ proc[p].pc = "pages"
    /\ \E ok \in results :
         IF ok
         THEN /\ pages' = trackPageView(pages, Host(p), Path(p), proc[p].day, proc[p].visitor)
              /\ merged' = merged (+) SetToBag({Merged("pages", Host(p), Path(p), proc[p].day, proc[p].visitor)})
              /\ proc' = [proc EXCEPT ![p].pc = "countries", ![p].tried = @ \cup {"pages"}]
         ELSE /\ proc' = [proc EXCEPT ![p].pc = "countries", ![p].tried = @ \cup {"pages"},
                                      ![p].failed = @ \cup {"pages"}]
              /\ UNCHANGED <<pages, merged>>
    /\ resp' = NoResp
    /\ UNCHANGED <<now, apiKey, environment, countries, sources, nreq>>

\* main.go 159-164: trackPageView and the return on its error
TrackPagesWith(p, results) ==
    /\ proc[p].pc = "pages"
    /\ \E ok \in results :
         IF ok
         THEN /\ pages' = trackPageView(pages, Host(p), Path(p), proc[p].day, proc[p].visitor)
              /\ merged' = merged (+) SetToBag({Merged("pages", Host(p), Path(p), proc[p].day, proc[p].visitor)})
              /\ proc' = [proc EXCEPT ![p].pc = "countries", ![p].tried = @ \cup {"pages"}]
              /\ resp' = NoResp
         ELSE /\ proc' = [proc EXCEPT ![p] = IdleProc]
              /\ resp' = TrackResp(500, "Failed to track pageview", proc[p].url, proc[p].ua,
                                   proc[p].tried \cup {"pages"}, proc[p].failed \cup {"pages"})
              /\ UNCHANGED <<pages, merged>>
    /\ UNCHANGED <<now, apiKey, environment, countries, sources, nreq>>

\* every statement may succeed or return an error
TrackPages(p) == TrackPagesWith(p, BOOLEAN)

\* TrackCountryFrom that answers 500 and returns when trackCountryView fails
TrackCountryFrom_Abort(p, hints, results) ==
    /\ proc[p].pc = "countries"
    /\ \E country \in hints, ok \in results \cup {TRUE} :
         IF country = ""
         THEN /\ ok
              /\ proc' = [proc EXCEPT ![p].pc = "sources"]
              /\ resp' = NoResp
              /\ UNCHANGED <<countries, merged>>
         ELSE IF ok
         THEN /\ countries' = trackCountryView(countries, Host(p), country, proc[p].day, proc[p].visitor)
              /\ merged' = merged (+) SetToBag({Merged("countries", Host(p), country, proc[p].day, proc[p].visitor)})
              /\ proc' = [proc EXCEPT ![p].pc = "sources", ![p].country = country,
                                      ![p].tried = @ \cup {"countries"}]
              /\ resp' = NoResp
         ELSE /\ proc' = [proc EXCEPT ![p] = IdleProc]
              /\ resp' = TrackResp(500, "Failed to track country view", proc[p].url, proc[p].ua,
                                   proc[p].tried \cup {"countries"},
                                   proc[p].failed \cup {"countries"})
              /\ UNCHANGED <<countries, merged>>
    /\ UNCHANGED <<now, apiKey, environment, pages, sources, nreq>>

\* main.go 166-172: the country hint and trackCountryView
TrackCountryFrom(p, hints, results) ==
    /\ proc[p].pc = "countries"
    /\ \E country \in hints, ok \in results \cup {TRUE} :
         IF country = ""
         THEN /\ ok
              /\ proc' = [proc EXCEPT ![p].pc = "sources"]
              /\ UNCHANGED <<countries, merged>>
         ELSE IF ok
         THEN /\ countries' = trackCountryView(countries, Host(p), country, proc[p].day, proc[p].visitor)
              /\ merged' = merged (+) SetToBag({Merged("countries", Host(p), country, proc[p].day, proc[p].visitor)})
              /\ proc' = [proc EXCEPT ![p].pc = "sources", ![p].country = country,
                                      ![p].tried = @ \cup {"countries"}]
         ELSE /\ proc' = [proc EXCEPT ![p].pc = "sources", ![p].country = country,
                                      ![p].tried = @ \cup {"countries"},
                                      ![p].failed = @ \cup {"countries"}]
              /\ UNCHANGED <<countries, merged>>
    /\ resp' = NoResp
    /\ UNCHANGED <<now, apiKey, environment, pages, sources, nreq>>

TrackCountry(p) == TrackCountryFrom(p, CountryHints, BOOLEAN)

\* ReferrerDomain without the comparison with the domain of the page
ReferrerDomain_NoSelfCheck(referer, host) ==
    LET refURL == url_Parse(referer)
    IN  IF referer = "" THEN "Direct / None"
        ELSE IF ~refURL.err THEN refURL.Host
        ELSE referer

\* main.go 174-187: the referrer domain of the sources key
ReferrerDomain(referer, host) ==
    LET refURL == url_Parse(referer)
        referrer == IF referer = "" THEN "Direct / None"
                    ELSE IF ~refURL.err THEN refURL.Host
                    ELSE referer
    IN  IF referrer = host THEN "Direct / None" ELSE referrer

\* main.go 174-199: the referrer, trackSourceView and the answer
TrackSourceFrom(p, referers, results) ==
    /\ proc[p].pc = "sources"
    /\ \E referer \in referers, ok \in results :
         LET referrer == ReferrerDomain(referer, Host(p))
         IN  /\ IF ok
                THEN /\ sources' = trackSourceView(sources, Host(p), referrer, proc[p].day, proc[p].visitor)
                     /\ merged' = merged (+) SetToBag({Merged("sources", Host(p), referrer, proc[p].day, proc[p].visitor)})
                ELSE UNCHANGED <<sources, merged>>
             /\ resp' = [TrackResp(200, "", proc[p].url, proc[p].ua,
                                   proc[p].tried \cup {"sources"},
                                   IF ok THEN proc[p].failed ELSE proc[p].failed \cup {"sources"})
                           EXCEPT !.referer = referer]
    /\ proc' = [proc EXCEPT ![p] = IdleProc]
    /\ UNCHANGED <<now, apiKey, environment, pages, countries, nreq>>

TrackSource(p) == TrackSourceFrom(p, Referers, BOOLEAN)

(* ----------------------------------------------------------------- clock *)

Tick ==
    /\ now < MaxNow
    /\ now' = now + 1
    /\ resp' = NoResp
    /\ UNCHANGED <<apiKey, environment, pages, countries, sources, proc, nreq, merged>>

(* ---------------------------------------------------------------- /stats *)

\* requireAPIKey without the refusal of a production server that has no API_KEY
requireAPIKey_NoProductionCheck(key) ==
    ~(apiKey # "" /\ key # apiKey)

\* requireAPIKey: TRUE when the wrapped handler runs
requireAPIKey(key) ==
    /\ ~(apiKey = "" /\ environment = "production")
    /\ ~(apiKey # "" /\ key # apiKey)

\* WHERE domain = $1 AND day >= $2 AND day <= $3, with the handler's window
InWindow(table, domain) ==
    LET endTime == Truncate(now)
        startTime == endTime - WindowDays * DayLen
    IN  {r \in table : r.domain = domain /\ r.day >= startTime /\ r.day <= endTime}

\* PerValueRows as SELECT val, day, count(*) as visitors .. GROUP BY val, day
PerValueRows_CountStar(table, domain) ==
    {[val |-> r.val, day |-> r.day, visitors |-> 1] : r \in InWindow(table, domain)}

\* SELECT val, day, hll_cardinality(visitor_hll) as visitors
PerValueRows(table, domain) ==
    {[val |-> r.val, day |-> r.day, visitors |-> hll_cardinality(r.hll)] :
        r \in InWindow(table, domain)}

RECURSIVE SumCardinality(_)
SumCardinality(rows) ==
    IF rows = {} THEN 0
    ELSE LET r == CHOOSE x \in rows : TRUE
         IN  hll_cardinality(r.hll) + SumCardinality(rows \ {r})

\* AggregateRows as SELECT day, SUM(hll_cardinality(visitor_hll)) .. GROUP BY day
AggregateRows_SumPerPath(table, domain) ==
    LET sel == InWindow(table, domain)
    IN  {[val |-> "", day |-> d,
          visitors |-> SumCardinality({x \in sel : x.day = d})] :
            d \in {r.day : r \in sel}}

\* SELECT day, #(hll_union_agg(visitor_hll)) as visitors .. GROUP BY day
AggregateRows(table, domain) ==
    LET sel == InWindow(table, domain)
    IN  {[val |-> "", day |-> d,
          visitors |-> hll_cardinality(hll_union_agg({r.hll : r \in {x \in sel : x.day = d}}))] :
            d \in {r.day : r \in sel}}

\* Before for ORDER BY day DESC alone
Before_DayOnly(a, b, byVisitors) ==
    a.day > b.day

\* ORDER BY day DESC [, visitors DESC]: a comes strictly before b
Before(a, b, byVisitors) ==
    \/ a.day > b.day
    \/ byVisitors /\ a.day = b.day /\ a.visitors > b.visitors

\* every sequence of the rows R that the ORDER BY allows (ties in any order)
RECURSIVE OrderBy(_, _)
OrderBy(R, byVisitors) ==
    IF R = {} THEN {<<>>}
    ELSE UNION {{<<r>> \o s : s \in OrderBy(R \ {r}, byVisitors)} :
                    r \in {x \in R : \A y \in R : ~Before(y, x, byVisitors)}}

\* Stats that answers 404 when the query returns no row
Stats_EmptyIsError(kind, key, domain, rowsets) ==
    /\ resp' \in
         IF ~requireAPIKey(key)
         THEN {StatsResp(kind, 401, key, "", <<>>)}
         ELSE IF domain = ""
         THEN {StatsResp(kind, 400, key, "", <<>>)}
         ELSE {[StatsResp(kind, 500, key, domain, <<>>) EXCEPT !.failed = {"query"}]}
              \cup {StatsResp(kind, IF rows = <<>> THEN 404 ELSE 200, key, domain, rows) :
                        rows \in rowsets}
    /\ UNCHANGED <<now, apiKey, environment, pages, countries, sources, proc, nreq, merged>>

\* the body shared by the handlers: the key check, the domain check, the query
Stats(kind, key, domain, rowsets) ==
    /\ resp' \in
         IF ~requireAPIKey(key)
         THEN {StatsResp(kind, 401, key, "", <<>>)}
         ELSE IF domain = ""
         THEN {StatsResp(kind, 400, key, "", <<>>)}
         ELSE {[StatsResp(kind, 500, key, domain, <<>>) EXCEPT !.failed = {"query"}]}
              \cup {StatsResp(kind, 200, key, domain, rows) : rows \in rowsets}
    /\ UNCHANGED <<now, apiKey, environment, pages, countries, sources, proc, nreq, merged>>

\* main.go 202-268
StatsPages ==
    \E key \in QueryKeys, domain \in QueryDomains, aggregate \in BOOLEAN :
        IF aggregate
        THEN Stats("pages/aggregate", key, domain, OrderBy(AggregateRows(pages, domain), FALSE))
        ELSE Stats("pages", key, domain, OrderBy(PerValueRows(pages, domain), TRUE))

\* main.go 270-315
StatsSources ==
    \E key \in QueryKeys, domain \in QueryDomains :
        Stats("sources", key, domain, OrderBy(PerValueRows(sources, domain), TRUE))

\* main.go 317-362
StatsCountries ==
    \E key \in QueryKeys, domain \in QueryDomains :
        Stats("countries", key, domain, OrderBy(PerValueRows(countries, domain), TRUE))

(* ------------------------------------------------------------------ spec *)

\* the beacon under every kind of request
Next ==
    \/ \E p \in Procs : TrackReceive(p)
    \/ \E p \in Procs : TrackPages(p)
    \/ \E p \in Procs : TrackCountry(p)
    \/ \E p \in Procs : TrackSource(p)
    \/ Tick

Spec == Init /\ [][Next]_vars

\* the read API over the tables that human visits of well-formed URLs build
StatsURLs == {"https://a.com", "https://a.com/x"}
StatsAgents == {"Mozilla/5.0 Firefox/130.0"}
StatsHints == {"FR"}
StatsReferers == {"", "https://t.co/"}
StatsPagesResults == BOOLEAN
StatsOtherResults == {TRUE}

StatsForwarded == {<<>>}

StatsTrackReceive(p) ==
    TrackReceiveFrom(p, StatsURLs, StatsAgents, RemoteAddrs, StatsForwarded, MaxStatsRequests)
StatsTrackPages(p) == TrackPagesWith(p, StatsPagesResults)
StatsTrackCountry(p) == TrackCountryFrom(p, StatsHints, StatsOtherResults)
StatsTrackSource(p) == TrackSourceFrom(p, StatsReferers, StatsOtherResults)

\* requests reach the store one after the other here; a query may still run
\* between the statements of a request
StatsProcs == {1}

NextStats ==
    \/ \E p \in StatsProcs : StatsTrackReceive(p)
    \/ \E p \in StatsProcs : StatsTrackPages(p)
    \/ \E p \in StatsProcs : StatsTrackCountry(p)
    \/ \E p \in StatsProcs : StatsTrackSource(p)
    \/ StatsPages
    \/ StatsSources
    \/ StatsCountries
    \/ Tick

SpecStats == Init /\ [][NextStats]_vars

\* one visitor page, one request at a time, statements that succeed: the traffic
\* under which the configuration and the age of the rows vary
SingleURLs == {"https://a.com/x"}
SingleReferers == {""}
MaxSingleRequests == 2

SingleTrackReceive(p) ==
    TrackReceiveFrom(p, SingleURLs, StatsAgents, RemoteAddrs, StatsForwarded, MaxSingleRequests)
SingleTrackPages(p) == TrackPagesWith(p, {TRUE})
SingleTrackCountry(p) == TrackCountryFrom(p, StatsHints, {TRUE})
SingleTrackSource(p) == TrackSourceFrom(p, SingleReferers, {TRUE})

\* API_KEY and ENVIRONMENT as init() may find them
ApiKeys == {"", "secret"}
Environments == {"production", "development"}

InitAuth ==
    /\ now = 0
    /\ apiKey \in ApiKeys
    /\ environment \in Environments
    /\ pages = {}
    /\ countries = {}
    /\ sources = {}
    /\ proc = [p \in Procs |-> IdleProc]
    /\ nreq = 0
    /\ merged = EmptyBag
    /\ resp = NoResp

\* the read API under every configuration of the key
NextAuth ==
    \/ \E p \in StatsProcs : SingleTrackReceive(p)
    \/ \E p \in StatsProcs : SingleTrackPages(p)
    \/ \E p \in StatsProcs : SingleTrackCountry(p)
    \/ \E p \in StatsProcs : SingleTrackSource(p)
    \/ StatsPages
    \/ StatsSources
    \/ StatsCountries
    \/ Tick

SpecAuth == InitAuth /\ [][NextAuth]_vars

\* the instants at which the clock is read here: the first two days, and the days
\* 29, 30 and 31 days after the first
ClockInstants ==
    {0, DayLen, (WindowDays - 1) * DayLen, WindowDays * DayLen, (WindowDays + 1) * DayLen}

\* time passes between two steps of the server
Advance ==
    /\ \E t \in ClockInstants : t > now /\ now' = t
    /\ resp' = NoResp
    /\ UNCHANGED <<apiKey, environment, pages, countries, sources, proc, nreq, merged>>

\* the read API over rows that grow old
NextWindow ==
    \/ \E p \in StatsProcs : SingleTrackReceive(p)
    \/ \E p \in StatsProcs : SingleTrackPages(p)
    \/ \E p \in StatsProcs : SingleTrackCountry(p)
    \/ \E p \in StatsProcs : SingleTrackSource(p)
    \/ StatsPages
    \/ StatsSources
    \/ StatsCountries
    \/ Advance

SpecWindow == Init /\ [][NextWindow]_vars

(* ---------------------------------------------------------------- claims *)

TableOf(t) ==
    CASE t = "pages" -> pages
      [] t = "countries" -> countries
      [] t = "sources" -> sources

TableNames == {"pages", "countries", "sources"}

\* the fingerprints the successful statements merged at a key
FpsAt(t, domain, val, day) ==
    {e.fp : e \in {x \in BagToSet(merged) : x.table = t /\ x.domain = domain /\ x.val = val /\ x.day = day}}

\* the fingerprints of every visitor address of the model
AllFps == {Fingerprint(v) : v \in RemoteAddrs \cup (ForwardedIPs \ {<<>>})}

\* the request the response answers passed the url check, the bot filter and url.Parse
Tracked(r) ==
    r.kind = "track" /\ r.url # "" /\ ~IsBot(r.ua) /\ ~url_Parse(r.url).err

\* C1: a /track request with a non-empty url and a bot user-agent is answered 200,
\* runs no statement and leaves the three tables as they were, whatever its url
\* (parseable or not) and addresses are; no such request ever reaches a statement.
C1_BotAcceptedNoWrite ==
    [][/\ \A p \in Procs :
            proc'[p].pc # "idle" => ~(proc'[p].url # "" /\ IsBot(proc'[p].ua))
       /\ (resp'.kind = "track" /\ resp'.url # "" /\ IsBot(resp'.ua))
            => (resp'.code = 200 /\ resp'.tried = {} /\ tables' = tables)]_vars

\* a bot's request with a url that does not parse is accepted while the store holds rows
C1_Witness ==
    /\ resp.kind = "track" /\ IsBot(resp.ua) /\ resp.url = "%zz" /\ resp.code = 200
    /\ pages # {}

\* C2: a /track request with an empty url is answered 400 "Missing 'url' parameter"
\* even when its user-agent is a bot; a non-bot request whose url does not parse is
\* answered 400 "Invalid URL"; both run no statement and leave the tables as they
\* were, and no request with such a url ever reaches a statement.
C2_RejectedNoWrite ==
    [][/\ \A p \in Procs :
            proc'[p].pc # "idle" => (proc'[p].url # "" /\ ~url_Parse(proc'[p].url).err)
       /\ (resp'.kind = "track" /\ resp'.url = "")
            => /\ resp'.code = 400 /\ resp'.body = "Missing 'url' parameter"
               /\ resp'.tried = {} /\ tables' = tables
       /\ (resp'.kind = "track" /\ resp'.url # "" /\ ~IsBot(resp'.ua) /\ url_Parse(resp'.url).err)
            => /\ resp'.code = 400 /\ resp'.body = "Invalid URL"
               /\ resp'.tried = {} /\ tables' = tables]_vars

\* a malformed url is rejected while the store holds rows
C2_Witness ==
    /\ resp.kind = "track" /\ resp.body = "Invalid URL" /\ ~IsBot(resp.ua)
    /\ pages # {}

\* C3: a non-bot request with a parseable url is answered 500 exactly when its pages
\* statement returned an error; when the pages statement succeeded the answer is 200
\* whether the countries and sources statements succeeded or not.
C3_StorageOnlyFromPages ==
    Tracked(resp) =>
        /\ "pages" \in resp.tried
        /\ resp.code = 500 <=> "pages" \in resp.failed
        /\ "pages" \notin resp.failed => resp.code = 200

\* a request is accepted although both secondary statements failed
C3_Witness ==
    Tracked(resp) /\ resp.code = 200 /\ resp.failed = {"countries", "sources"}

\* C4 as stated: whichever statement of a request fails, the pages and the sources
\* statements (the writes that apply to every event) are still attempted.
C4_NoWriteBlocksOthers ==
    (resp.kind = "track" /\ resp.failed # {}) => {"pages", "sources"} \subseteq resp.tried

\* C4 as amended: a failed pages statement ends the request, no other statement is
\* attempted; once the pages statement succeeded, the sources statement is attempted
\* whether the countries statement failed or not, and a request whose countries
\* statement failed is at its sources statement.
C4_OnlyPagesBlocks ==
    /\ resp.kind = "track" =>
          /\ "pages" \in resp.failed => resp.tried = {"pages"}
          /\ ("pages" \in resp.tried /\ "pages" \notin resp.failed) => "sources" \in resp.tried
    /\ \A p \in Procs :
          /\ "pages" \notin proc[p].failed
          /\ "countries" \in proc[p].failed => proc[p].pc = "sources"

\* the countries statement failed and the sources statement still wrote its row
C4_Witness ==
    /\ resp.kind = "track" /\ "countries" \in resp.failed
    /\ "sources" \in resp.tried /\ "sources" \notin resp.failed
    /\ sources # {}

\* C5: every fingerprint a successful statement merged at a key is in the estimator
\* of the row of that key, in every interleaving of the requests' statements.
C5_NoLostUpdates ==
    \A e \in BagToSet(merged) :
        \E r \in TableOf(e.table) :
            SameKey(r, e.domain, e.val, e.day) /\ e.fp \in HllElems(r.hll)

\* two requests in flight at once have both run their pages statement at one key
C5_Witness ==
    \E p, q \in Procs :
        /\ p # q
        /\ proc[p].pc \in {"countries", "sources"} /\ proc[q].pc \in {"countries", "sources"}
        /\ proc[p].url = proc[q].url /\ proc[p].day = proc[q].day
        /\ proc[p].visitor # proc[q].visitor
        /\ \E r \in pages :
              /\ SameKey(r, Host(p), Path(p), proc[p].day)
              /\ HllElems(r.hll) = {Fingerprint(proc[p].visitor), Fingerprint(proc[q].visitor)}

UniqueKeys(table) ==
    \A r1, r2 \in table : SameKey(r1, r2.domain, r2.val, r2.day) => r1 = r2

\* the rows of a table before and after a step: no row and no fingerprint is lost,
\* and a row that is new or changed is either a created row holding the one
\* fingerprint of a request in flight, or an old row with that fingerprint added
RowsStep(old, new) ==
    /\ \A r \in old :
          \E r2 \in new : /\ SameKey(r2, r.domain, r.val, r.day)
                          /\ HllElems(r.hll) \subseteq HllElems(r2.hll)
    /\ \A r2 \in new \ old :
          \E p \in Procs :
              LET f == Fingerprint(proc[p].visitor)
              IN  IF \E r \in old : SameKey(r, r2.domain, r2.val, r2.day)
                  THEN \E r \in old : /\ SameKey(r, r2.domain, r2.val, r2.day)
                                      /\ HllElems(r2.hll) = HllElems(r.hll) \cup {f}
                  ELSE r2.hll = <<f>>

\* C6: each table holds at most one row per (domain, value, day); a statement
\* creates the row with the one fingerprint when the key is absent and adds the
\* fingerprint to the row otherwise; no step deletes a row or removes a fingerprint.
C6_RowLifecycle ==
    [][/\ UniqueKeys(pages') /\ UniqueKeys(countries') /\ UniqueKeys(sources')
       /\ RowsStep(pages, pages')
       /\ RowsStep(countries, countries')
       /\ RowsStep(sources, sources')]_vars

\* a countries row was created by one request and merged into by another
C6_Witness ==
    \E r \in countries : Len(r.hll) = 2

AllRows == pages \cup countries \cup sources

KeysAt(t, domain) ==
    {<<e.val, e.day>> : e \in {x \in BagToSet(merged) : x.table = t /\ x.domain = domain}}

DaysAt(t, domain) == {k[2] : k \in KeysAt(t, domain)}

\* C7: the per-path answer holds one row per (path, day) at which a pages statement
\* succeeded for the domain (every day of the model lies in the window), and its
\* visitors is the number of distinct fingerprints merged at that key, however often
\* each was merged.
C7_PerPathCount ==
    (resp.kind = "pages" /\ resp.code = 200) =>
        /\ {<<resp.rows[i].val, resp.rows[i].day>> : i \in 1..Len(resp.rows)}
              = KeysAt("pages", resp.domain)
        /\ Len(resp.rows) = Cardinality(KeysAt("pages", resp.domain))
        /\ \A i \in 1..Len(resp.rows) :
              resp.rows[i].visitors
                  = Cardinality(FpsAt("pages", resp.domain, resp.rows[i].val, resp.rows[i].day))

\* three views of one page on one day by two visitors are reported as 2 visitors
C7_Witness ==
    /\ resp.kind = "pages" /\ resp.code = 200
    /\ \E e \in BagToSet(merged) :
          /\ e.table = "pages" /\ e.domain = resp.domain /\ CopiesIn(e, merged) = 2
          /\ \E i \in 1..Len(resp.rows) :
                /\ resp.rows[i].val = e.val /\ resp.rows[i].day = e.day
                /\ resp.rows[i].visitors = 2

\* C8: the aggregate answer holds one row per day at which a pages statement
\* succeeded for the domain, and its visitors is the number of distinct fingerprints
\* merged at any path of that day: a fingerprint seen on several paths counts once.
C8_AggregateUnion ==
    (resp.kind = "pages/aggregate" /\ resp.code = 200) =>
        /\ {resp.rows[i].day : i \in 1..Len(resp.rows)} = DaysAt("pages", resp.domain)
        /\ Len(resp.rows) = Cardinality(DaysAt("pages", resp.domain))
        /\ \A i \in 1..Len(resp.rows) :
              /\ resp.rows[i].val = ""
              /\ resp.rows[i].visitors
                    = Cardinality(UNION {FpsAt("pages", resp.domain, k[1], k[2]) :
                          k \in {x \in KeysAt("pages", resp.domain) : x[2] = resp.rows[i].day}})

\* one visitor viewed two paths on one day and the aggregate row reports 1
C8_Witness ==
    /\ resp.kind = "pages/aggregate" /\ resp.code = 200
    /\ \E i \in 1..Len(resp.rows) :
          /\ resp.rows[i].visitors = 1
          /\ \E r1, r2 \in pages :
                /\ r1 # r2
                /\ r1.domain = resp.domain /\ r2.domain = resp.domain
                /\ r1.day = resp.rows[i].day /\ r2.day = resp.rows[i].day
                /\ r1.hll = r2.hll

\* C10: the rows of a per-value answer (pages, countries, sources) are in descending
\* order of day and, within a day, in descending order of visitors; the rows of the
\* aggregate answer are in descending order of day.
C10_Ordered ==
    resp.code = 200 =>
        /\ resp.kind \in {"pages", "countries", "sources"} =>
              \A i, j \in 1..Len(resp.rows) :
                  i < j => \/ resp.rows[i].day > resp.rows[j].day
                           \/ /\ resp.rows[i].day = resp.rows[j].day
                              /\ resp.rows[i].visitors >= resp.rows[j].visitors
        /\ resp.kind = "pages/aggregate" =>
              \A i, j \in 1..Len(resp.rows) : i < j => resp.rows[i].day > resp.rows[j].day

\* a sources answer with two referrers of one day and different visitor counts
C10_Witness ==
    /\ resp.kind = "sources" /\ resp.code = 200
    /\ \E i, j \in 1..Len(resp.rows) :
          /\ i < j
          /\ resp.rows[i].day = resp.rows[j].day
          /\ resp.rows[i].visitors > resp.rows[j].visitors

\* the request of slot p ends in this step with the statement on sources
SourceStep(p) == proc[p].pc = "sources" /\ proc'[p].pc = "idle"

\* the rows of new outside the key are the rows of old outside the key, and the
\* row of new at the key holds the fingerprint
WroteOnlyKey(old, new, domain, val, day, fp) ==
    /\ {r \in new : ~SameKey(r, domain, val, day)} = {r \in old : ~SameKey(r, domain, val, day)}
    /\ \E r \in new : SameKey(r, domain, val, day) /\ fp \in HllElems(r.hll)

\* C14: the referrer of the sources key is "Direct / None" when the Referer header
\* is absent, else the host of the parsed header, or the header itself when it does
\* not parse; a referrer equal to the domain of the page becomes "Direct / None".
\* So the statement on sources writes the key (domain, that referrer, day), and no
\* row of sources has a referrer equal to its own domain.
C14_ReferrerDerivation ==
    [][\A p \in Procs :
          SourceStep(p) =>
            LET header == resp'.referer
                domain == url_Parse(proc[p].url).Host
                parsed == url_Parse(header)
                derived == IF header = "" THEN "Direct / None"
                           ELSE IF parsed.err THEN header
                           ELSE parsed.Host
                expected == IF derived = domain THEN "Direct / None" ELSE derived
            IN  /\ "sources" \notin resp'.failed =>
                      WroteOnlyKey(sources, sources', domain, expected, proc[p].day,
                                   Fingerprint(proc[p].visitor))
                /\ \A r \in sources' : r.val # r.domain]_vars

\* a visit of a.com that arrives from a page of a.com is filed under "Direct / None",
\* next to a visit whose Referer does not parse and is kept as it is
C14_Witness ==
    /\ resp.kind = "track" /\ resp.code = 200 /\ resp.failed = {}
    /\ resp.referer = "https://a.com/x" /\ url_Parse(resp.url).Host = "a.com"
    /\ \E r \in sources : r.domain = "a.com" /\ r.val = "Direct / None"
    /\ \E r \in sources : r.val = "%zz"
    /\ \A r \in sources : r.val # "a.com"

\* the statement on pages of slot p succeeds in this step
PagesStep(p) == proc[p].pc = "pages" /\ proc'[p].pc = "countries"

\* slot p reads the country header in this step, and runs the statement on countries
\* when the header is not empty
CountryStep(p) == proc[p].pc = "countries" /\ proc'[p].pc = "sources"

\* what a step may do to the tables on behalf of the request of slot p
IngestFrame(p) ==
    LET domain == url_Parse(proc[p].url).Host
        path == IF url_Parse(proc[p].url).Path = "" THEN "/"
                ELSE url_Parse(proc[p].url).Path
        fp == Fingerprint(proc[p].visitor)
    IN  /\ PagesStep(p) =>
              /\ WroteOnlyKey(pages, pages', domain, path, proc[p].day, fp)
              /\ countries' = countries /\ sources' = sources
        /\ CountryStep(p) =>
              /\ pages' = pages /\ sources' = sources
              /\ proc'[p].country = "" => countries' = countries
              /\ "countries" \in proc'[p].failed => countries' = countries
              /\ (proc'[p].country # "" /\ "countries" \notin proc'[p].failed) =>
                    WroteOnlyKey(countries, countries', domain, proc'[p].country,
                                 proc[p].day, fp)
        /\ SourceStep(p) =>
              /\ pages' = pages /\ countries' = countries
              /\ "sources" \in resp'.failed => sources' = sources
              /\ "sources" \notin resp'.failed =>
                    \E r \in sources' :
                        WroteOnlyKey(sources, sources', domain, r.val, proc[p].day, fp)

\* C15: an ingest of a tracked view whose statements succeed modifies the pages row
\* (domain, path or "/" when the path is empty, day), the sources row (domain,
\* referrer, day) and, if and only if the country header is not empty, the countries
\* row (domain, country, day); it modifies no row of any other key, and no step
\* outside these statements modifies a table.
C15_IngestFrame ==
    [][(\A p \in Procs : IngestFrame(p))
       /\ (tables' # tables =>
              (\E p \in Procs : PagesStep(p) \/ CountryStep(p) \/ SourceStep(p)))]_vars

\* a view of the root of a.com with a country header has ended with its three
\* statements done: one row per table, the pages row under "/"
C15_Witness ==
    /\ resp.kind = "track" /\ resp.code = 200 /\ resp.url = "https://a.com"
    /\ resp.tried = {"pages", "countries", "sources"} /\ resp.failed = {}
    /\ Cardinality(pages) = 1 /\ Cardinality(countries) = 1 /\ Cardinality(sources) = 1
    /\ \A r \in pages : r.domain = "a.com" /\ r.val = "/"
    /\ \A r \in countries : r.domain = "a.com" /\ r.val = "FR"

\* the fingerprints the estimators of a table hold for a domain and a day
FpsOfDay(table, domain, day) ==
    UNION {HllElems(r.hll) : r \in {x \in table : x.domain = domain /\ x.day = day}}

\* C18: for every domain and every day, each fingerprint held by an estimator of
\* countries or of sources for that domain and day is held by an estimator of pages
\* for the same domain and day.
C18_SecondaryWithinPages ==
    \A r \in countries \cup sources :
        HllElems(r.hll) \subseteq FpsOfDay(pages, r.domain, r.day)

\* both secondary tables hold a fingerprint, and pages holds one more for the same
\* domain and day that sources does not hold: the converse fails
C18_Witness ==
    /\ countries # {}
    /\ \E r \in sources :
          /\ HllElems(r.hll) # {}
          /\ FpsOfDay(pages, r.domain, r.day) \ FpsOfDay(sources, r.domain, r.day) # {}

\* the IP of an address: the bytes in front of the first ':' (byte 58) of "IP:port",
\* the whole of an address without a port
RECURSIVE IPOf(_)
IPOf(addr) ==
    IF addr = <<>> \/ Head(addr) = 58 THEN <<>>
    ELSE <<Head(addr)>> \o IPOf(Tail(addr))

\* the slots that run a request past its checks
InFlight == {p \in Procs : proc[p].pc # "idle"}

\* C16: the fingerprint an ingest adds is a function of the client IP of the visitor
\* alone (the CF-Connecting-IP header, else the IP of the connection): two requests
\* with the same client IP contribute the same fingerprint.
C16_FingerprintOfIPAlone ==
    \A p \in InFlight, q \in InFlight :
        IPOf(proc[p].visitor) = IPOf(proc[q].visitor) =>
            Fingerprint(proc[p].visitor) = Fingerprint(proc[q].visitor)

\* the rows a step creates or modifies
Written(old, new) == new \ old

AllWritten ==
    Written(pages, pages') \cup Written(countries, countries') \cup Written(sources, sources')

\* d is the UTC date of the instant t: the midnight at or before t
IsDateOf(d, t) == d % DayLen = 0 /\ d <= t /\ t < d + DayLen

\* C17 as stated: every row an ingest creates or modifies has the day that is the
\* current UTC date of the server when the row is written, so that the rows of
\* past days are never altered.
C17_OnlyCurrentDay ==
    [][\A r \in AllWritten : IsDateOf(r.day, now')]_vars

\* slot p takes up a request in this step
ReceiveStep(p) == proc[p].pc = "idle" /\ proc'[p].pc = "pages"

\* C17: the day of a request is the UTC date of the server clock at the moment the
\* handler reads it, whatever the request holds; it stays the same for all the
\* statements of the request, every row a statement creates or modifies has that
\* day, and no row of a day after the current UTC date is ever written.
C17_DayOfReceipt ==
    [][/\ \A p \in Procs : ReceiveStep(p) => IsDateOf(proc'[p].day, now)
       /\ \A p \in Procs :
             (proc[p].pc # "idle" /\ proc'[p].pc # "idle") => proc'[p].day = proc[p].day
       /\ \A p \in Procs :
             (PagesStep(p) \/ CountryStep(p) \/ SourceStep(p)) =>
                 \A r \in AllWritten : r.day = proc[p].day
       /\ \A r \in AllWritten : r.day <= now' /\ r.day % DayLen = 0]_vars

\* midnight has passed since a request was received: its statements on pages and
\* countries have written rows of the day before the current UTC date
C17_Witness ==
    \E p \in Procs :
        /\ proc[p].pc = "sources" /\ proc[p].tried = {"pages", "countries"}
        /\ proc[p].failed = {}
        /\ ~IsDateOf(proc[p].day, now)
        /\ \E r \in pages : r.day = proc[p].day
        /\ \E r \in countries : r.day = proc[p].day

StatsKinds == {"pages", "pages/aggregate", "sources", "countries"}

\* the table a /stats handler reads
TableOfKind(kind) ==
    CASE kind \in {"pages", "pages/aggregate"} -> pages
      [] kind = "sources" -> sources
      [] kind = "countries" -> countries

\* the response is that of a /stats handler that went as far as its query
Queried(r) == r.kind \in StatsKinds /\ r.code \notin {400, 401}

\* C12: a query that matches no row succeeds with an empty sequence of rows; a
\* query is answered with an error only when the store call or the scan of a row
\* fails.
C12_EmptyIsSuccess ==
    Queried(resp) =>
        /\ resp.code \in {200, 500}
        /\ resp.code = 500 <=> resp.failed = {"query"}
        /\ (resp.failed = {} /\ \A r \in TableOfKind(resp.kind) : r.domain # resp.domain) =>
              (resp.code = 200 /\ resp.rows = <<>>)

\* a.com has rows, and a per-path query for b.com, which has none, is answered 200
\* with no row
C12_Witness ==
    /\ resp.kind = "pages" /\ resp.code = 200 /\ resp.domain = "b.com"
    /\ resp.rows = <<>> /\ resp.failed = {}
    /\ \E r \in pages : r.domain = "a.com"

\* C13: a /stats request is answered by its handler only if an API key is
\* configured and the api_key of the request equals it, or no API key is configured
\* and the environment is not production; any other request is answered 401 and
\* no query is run for it.
C13_KeyGate ==
    resp.kind \in StatsKinds =>
        LET authorised == \/ apiKey # "" /\ resp.key = apiKey
                          \/ apiKey = "" /\ environment # "production"
        IN  IF authorised
            THEN resp.code # 401
            ELSE resp.code = 401 /\ resp.rows = <<>> /\ resp.failed = {} /\ resp.domain = ""

\* a production server without API_KEY refuses a request although the table has
\* rows
C13_Witness ==
    /\ apiKey = "" /\ environment = "production"
    /\ resp.kind = "pages" /\ resp.code = 401
    /\ pages # {}

\* C11 as stated: a query is answered with the rows of exactly the 30 calendar days
\* whose last day is the current UTC day, and with no row of an earlier or a later
\* day.
C11_ThirtyDays ==
    (resp.kind \in StatsKinds /\ resp.code = 200) =>
        LET today == Truncate(now)
            last30 == {today - i * DayLen : i \in 0..(WindowDays - 1)}
        IN  {resp.rows[i].day : i \in 1..Len(resp.rows)}
              = {r.day : r \in {x \in TableOfKind(resp.kind) :
                                    x.domain = resp.domain /\ x.day \in last30}}
====
